---------------------------- MODULE Spec2Model ----------------------------
(***************************************************************************)
(* Prompt Depth Anything: the forward pass of                              *)
(* PromptDepthAnythingForDepthEstimation and of the neck, fusion stage,    *)
(* fusion layer, reassemble layer and depth-estimation head it drives      *)
(* (modular_prompt_depth_anything.py).                                     *)
(*                                                                         *)
(* Tensors are modelled by their shape, by the values of the elements the  *)
(* program computes with (the prompt depth and the range derived from it,  *)
(* in IEEE-754 binary32 arithmetic with round-to-nearest-even), and, for   *)
(* the outputs of learned layers, by the sequence of operations that       *)
(* produced them.                                                          *)
(***************************************************************************)
EXTENDS Integers, Sequences, FiniteSets, TLC

(***************************************************************************)
(* binary32 arithmetic.  A finite non-negative number is <<m, e>>, meaning *)
(* m * 2^e, with m = 0 (and e = 0) or 2^23 <= m < 2^24.  NaN and +Inf are  *)
(* two further values.  Exponent overflow and subnormals are out of the    *)
(* range the inputs reach and are not modelled.                            *)
(***************************************************************************)
MantissaBits == 24

NaN == <<-1, 0>>
Inf == <<-2, 0>>
Zero == <<0, 0>>

IsNaN(x) == x = NaN
IsInf(x) == x = Inf

RECURSIVE BitLen(_)
BitLen(n) == IF n = 0 THEN 0 ELSE 1 + BitLen(n \div 2)

\* M * 2^e (plus a positive fraction of 2^e when sticky) rounded to
\* MantissaBits significant bits, ties to even.
Round(M, e, sticky) ==
    IF M = 0 THEN Zero
    ELSE LET n == BitLen(M) IN
         IF n <= MantissaBits
         THEN <<M * 2^(MantissaBits - n), e - (MantissaBits - n)>>
         ELSE LET k    == n - MantissaBits
                  q    == M \div 2^k
                  low  == M % 2^k
                  half == 2^(k - 1)
                  up   == low > half \/ (low = half /\ (sticky \/ q % 2 = 1))
                  q1   == IF up THEN q + 1 ELSE q
              IN IF q1 = 2^MantissaBits
                 THEN <<2^(MantissaBits - 1), e + k + 1>>
                 ELSE <<q1, e + k>>

\* The float of the integer k * 2^e, k small.
F(k, e) == Round(k, e, FALSE)

\* x < y, x <= y on floats (false when either is NaN).
Lt(x, y) ==
    IF IsNaN(x) \/ IsNaN(y) THEN FALSE
    ELSE IF IsInf(x) THEN FALSE
    ELSE IF IsInf(y) THEN TRUE
    ELSE IF y = Zero THEN FALSE
    ELSE IF x = Zero THEN TRUE
    ELSE x[2] < y[2] \/ (x[2] = y[2] /\ x[1] < y[1])

Le(x, y) == ~IsNaN(x) /\ ~IsNaN(y) /\ (x = y \/ Lt(x, y))

\* x + y
Add(x, y) ==
    IF IsNaN(x) \/ IsNaN(y) THEN NaN
    ELSE IF IsInf(x) \/ IsInf(y) THEN Inf
    ELSE IF x = Zero THEN y
    ELSE IF y = Zero THEN x
    ELSE LET hi == IF x[2] >= y[2] THEN x ELSE y
             lo == IF x[2] >= y[2] THEN y ELSE x
             d  == hi[2] - lo[2]
         IN IF d > MantissaBits + 2 THEN hi
            ELSE LET q  == (lo[1] * 8) \div 2^d
                     st == (lo[1] * 8) % 2^d # 0
                 IN Round(hi[1] * 8 + q, hi[2] - 3, st)

\* x - y, for y <= x (the only differences the program takes are of a
\* maximum and a minimum, or of an element and the minimum).
Sub(x, y) ==
    IF IsNaN(x) \/ IsNaN(y) THEN NaN
    ELSE IF IsInf(y) THEN NaN
    ELSE IF IsInf(x) THEN Inf
    ELSE IF y = Zero THEN x
    ELSE IF x = y THEN Zero
    ELSE LET d == x[2] - y[2]
         IN IF d > MantissaBits + 2 THEN x
            ELSE LET q  == (y[1] * 8) \div 2^d
                     st == (y[1] * 8) % 2^d # 0
                     T  == x[1] * 8 - q - (IF st THEN 1 ELSE 0)
                 IN Round(T, x[2] - 3, st)

\* x * y
Mul(x, y) ==
    IF IsNaN(x) \/ IsNaN(y) THEN NaN
    ELSE IF IsInf(x) \/ IsInf(y)
         THEN (IF x = Zero \/ y = Zero THEN NaN ELSE Inf)
    ELSE IF x = Zero \/ y = Zero THEN Zero
    ELSE LET a1  == x[1] \div 4096
             a0  == x[1] % 4096
             b1  == y[1] \div 4096
             b0  == y[1] % 4096
             mid == a1 * b0 + a0 * b1
             L   == (mid % 4096) * 4096 + a0 * b0
             Hi  == a1 * b1 + (mid \div 4096) + (L \div 2^24)
             rem == L % 2^24
         IN Round(Hi * 4 + (rem \div 2^22), x[2] + y[2] + 22, rem % 2^22 # 0)

\* The quotient bits of r / d after n more steps of long division.
RECURSIVE LongDiv(_, _, _, _)
LongDiv(q, r, d, n) ==
    IF n = 0 THEN <<q, r>>
    ELSE IF 2 * r >= d THEN LongDiv(2 * q + 1, 2 * r - d, d, n - 1)
                       ELSE LongDiv(2 * q, 2 * r, d, n - 1)

\* x / y
Div(x, y) ==
    IF IsNaN(x) \/ IsNaN(y) THEN NaN
    ELSE IF IsInf(x) THEN (IF IsInf(y) THEN NaN ELSE Inf)
    ELSE IF IsInf(y) THEN Zero
    ELSE IF y = Zero THEN (IF x = Zero THEN NaN ELSE Inf)
    ELSE IF x = Zero THEN Zero
    ELSE LET qr == LongDiv(x[1] \div y[1], x[1] % y[1], y[1], MantissaBits + 2)
         IN Round(qr[1], x[2] - y[2] - (MantissaBits + 2), qr[2] # 0)

\* torch.min / torch.max of two elements: NaN propagates.
Min2(x, y) == IF IsNaN(x) \/ IsNaN(y) THEN NaN ELSE IF Lt(y, x) THEN y ELSE x
Max2(x, y) == IF IsNaN(x) \/ IsNaN(y) THEN NaN ELSE IF Lt(x, y) THEN y ELSE x


(***************************************************************************)
(* Bounds of the model.                                                    *)
(***************************************************************************)
MaxBatch == 2
MaxLevels == 3
MaxSide == 12

Some(x) == <<x>>
None == <<>>

Last(s) == s[Len(s)]
Reverse(s) == [i \in 1..Len(s) |-> s[Len(s) + 1 - i]]

(***************************************************************************)
(* PromptDepthAnythingReassembleLayer.  A factor is the rational           *)
(* <<num, den>> in lowest terms; the resize module chosen by __init__ is a *)
(* record.                                                                 *)
(***************************************************************************)
Factors ==
    {<<4, 1>>, <<3, 1>>, <<2, 1>>, <<1, 1>>, <<1, 2>>, <<1, 4>>, <<1, 3>>,
     <<2, 5>>, <<3, 5>>}

\* torch_int(1 / factor): int() of a positive quotient truncates.
TorchIntInverse(factor) == factor[2] \div factor[1]

\* round(1 / factor), to nearest with ties to even.
RoundInverse(factor) ==
    LET q == factor[2] \div factor[1]
        r == factor[2] % factor[1]
    IN IF 2 * r > factor[1] \/ (2 * r = factor[1] /\ q % 2 = 1)
       THEN q + 1 ELSE q

ReassembleResizeRounded(factor) ==
    IF factor[1] > factor[2]
    THEN [kind |-> "ConvTranspose2d", kernel |-> factor[1] \div factor[2],
          stride |-> factor[1] \div factor[2], padding |-> 0]
    ELSE IF factor[1] = factor[2]
    THEN [kind |-> "Identity", kernel |-> 1, stride |-> 1, padding |-> 0]
    ELSE [kind |-> "Conv2d", kernel |-> 3,
          stride |-> RoundInverse(factor), padding |-> 1]

\* The resize module __init__ builds from factor.
ReassembleResize(factor) ==
    IF factor[1] > factor[2]
    THEN [kind |-> "ConvTranspose2d", kernel |-> factor[1] \div factor[2],
          stride |-> factor[1] \div factor[2], padding |-> 0]
    ELSE IF factor[1] = factor[2]
    THEN [kind |-> "Identity", kernel |-> 1, stride |-> 1, padding |-> 0]
    ELSE [kind |-> "Conv2d", kernel |-> 3,
          stride |-> TorchIntInverse(factor), padding |-> 1]

\* Output length of nn.Conv2d / nn.ConvTranspose2d along one axis.
ConvOut(n, kernel, stride, padding) ==
    (n + 2 * padding - kernel) \div stride + 1

ConvTransposeOut(n, kernel, stride, padding) ==
    (n - 1) * stride - 2 * padding + kernel

\* Output length of a resize module along one axis of length n.
ResizeOut(resize, n) ==
    IF resize.kind = "ConvTranspose2d"
    THEN ConvTransposeOut(n, resize.kernel, resize.stride, resize.padding)
    ELSE IF resize.kind = "Identity" THEN n
    ELSE ConvOut(n, resize.kernel, resize.stride, resize.padding)

ResizeOut2(resize, size) ==
    <<ResizeOut(resize, size[1]), ResizeOut(resize, size[2])>>

(***************************************************************************)
(* Configuration and inputs.                                               *)
(***************************************************************************)
\* reassemble_factors of the published checkpoints, and all ones.
CanonicalFactor(i) ==
    IF i = 1 THEN <<4, 1>> ELSE IF i = 2 THEN <<2, 1>>
    ELSE IF i = 3 THEN <<1, 1>> ELSE <<1, 2>>

FactorLists(n) ==
    {[i \in 1..n |-> CanonicalFactor(i)], [i \in 1..n |-> <<1, 1>>]}

MakeConfig(patch_size, factors, max_depth, head_in_index) ==
    [patch_size    |-> patch_size,
     levels        |-> Len(factors),
     resize        |-> [i \in 1..Len(factors) |-> ReassembleResize(factors[i])],
     max_depth     |-> max_depth,
     head_in_index |-> head_in_index]

Configs ==
    {MakeConfig(14, [i \in 1..2 |-> CanonicalFactor(i)], md, -1) :
        md \in {F(1, 0), F(2, 0)}}

ConfigsShapes ==
    {MakeConfig(p, fl, F(1, 0), -1) :
        p \in {14, 16}, fl \in UNION {FactorLists(n) : n \in 1..MaxLevels}}

\* One batch element of a 1 x 2 prompt: 0.0, 5.0, 31.0 and 32.0 uniform, and
\* three with a range (the last has full mantissas).
PromptElements ==
    {<<Zero, Zero>>, <<F(5, 0), F(5, 0)>>, <<F(31, 0), F(31, 0)>>,
     <<F(32, 0), F(32, 0)>>,
     <<F(1, 0), F(5, 0)>>, <<F(100, 0), F(1, 0)>>,
     <<<<10103096, -29>>, <<11729089, -25>>>>}

\* A prompt-depth tensor [B, 1, h, w]: its shape and, per batch element,
\* the row-major sequence of its h * w values.
Tensor(shape, data) == [shape |-> shape, data |-> data]
Unallocated == Tensor(<<>>, <<>>)

Prompts(B) ==
    {Tensor(<<B, 1, 1, 2>>, d) : d \in [1..B -> PromptElements]}

PromptsShapes(B) ==
    {Tensor(<<B, 1, sz[1], sz[2]>>,
            [b \in 1..B |->
                [i \in 1..(sz[1] * sz[2]) |->
                    IF i % 2 = 1 THEN F(1, 0) ELSE F(5, 0)]]) :
        sz \in {<<1, 2>>, <<2, 3>>}}

PixelSizes == {<<392, 518>>, <<28, 42>>, <<30, 45>>}

\* Values of the head's bounded activation, in [0, 1]: 0.0, 0.75, 1.0.
Activations == {Zero, F(3, -2), F(1, 0)}

ContainerKinds == {"tuple", "list", "tensor"}

VARIABLES
    config,              \* self.config, fixed at construction
    pc,                  \* position in forward
    labels,              \* "None" or "tensor"
    pixel_values,        \* shape of pixel_values
    caller_prompt,       \* the tensor the caller passed, as passed (None if none)
    prompt_depth,        \* the local prompt_depth: "None" or a storage
    heap,                \* storage -> tensor
    feature_maps,        \* outputs.feature_maps: [kind, n]
    patch,               \* <<patch_height, patch_width>>
    log,                 \* the stages that have run, in order
    error,               \* the exception raised, "none" if none
    hidden_states,       \* the neck's feature list
    fused_hidden_states, \* the fusion stage's output list
    fusion_calls,        \* the fusion layer calls made, in order
    predicted_depth,     \* None or Some(predicted depth)
    result,              \* None or Some(returned predicted depth)
    layer,               \* a ReassembleLayer: its factor and resize module
    layer_io             \* its last forward: <<input length, output length>>

vars ==
    <<config, pc, labels, pixel_values, caller_prompt, prompt_depth, heap,
      feature_maps, patch, log, error, hidden_states, fused_hidden_states,
      fusion_calls, predicted_depth, result, layer, layer_io>>

forward_vars ==
    <<pc, labels, pixel_values, caller_prompt, prompt_depth, heap,
      feature_maps, patch, log, error, hidden_states, fused_hidden_states,
      fusion_calls, predicted_depth, result>>

Storages == {"arg", "depth_min", "depth_max", "normalized"}

InitForward ==
    /\ pc = "idle"
    /\ labels = "None"
    /\ pixel_values = <<>>
    /\ caller_prompt = None
    /\ prompt_depth = "None"
    /\ heap = [s \in Storages |-> Unallocated]
    /\ feature_maps = [kind |-> "tuple", n |-> 0]
    /\ patch = <<0, 0>>
    /\ log = <<>>
    /\ error = "none"
    /\ hidden_states = <<>>
    /\ fused_hidden_states = <<>>
    /\ fusion_calls = <<>>
    /\ predicted_depth = None
    /\ result = None

InitLayer ==
    /\ layer = [factor |-> <<1, 1>>, resize |-> ReassembleResize(<<1, 1>>)]
    /\ layer_io = <<0, 0>>

(***************************************************************************)
(* PromptDepthAnythingForDepthEstimation.forward                           *)
(***************************************************************************)
\* The caller calls forward(pixel_values, labels, prompt_depth).
Call(labels_arg, pixel_shape, prompt_arg) ==
    /\ pc = "idle"
    /\ pc' = "labels"
    /\ labels' = labels_arg
    /\ pixel_values' = pixel_shape
    /\ caller_prompt' = prompt_arg
    /\ prompt_depth' = IF prompt_arg = None THEN "None" ELSE "arg"
    /\ heap' = [heap EXCEPT !["arg"] =
                   IF prompt_arg = None THEN Unallocated ELSE prompt_arg[1]]
    /\ UNCHANGED <<config, feature_maps, patch, log, error, hidden_states,
                   fused_hidden_states, fusion_calls, predicted_depth, result,
                   layer, layer_io>>

LabelsAccepted(l) == FALSE

\* if labels is not None: raise NotImplementedError
LabelsRejected(l) == l # "None"

CheckLabels ==
    /\ pc = "labels"
    /\ IF LabelsRejected(labels)
       THEN /\ pc' = "raised"
            /\ error' = "NotImplementedError"
       ELSE /\ pc' = "backbone"
            /\ error' = error
    /\ UNCHANGED <<config, labels, pixel_values, caller_prompt, prompt_depth,
                   heap, feature_maps, patch, log, hidden_states,
                   fused_hidden_states, fusion_calls, predicted_depth, result,
                   layer, layer_io>>

PatchGridCeil(length, patch_size) == (length + patch_size - 1) \div patch_size

\* height // patch_size
PatchGrid(length, patch_size) == length \div patch_size

\* The backbone is called and returns its feature maps, in a container and
\* a number the backbone decides; then the patch grid is computed.
Backbone ==
    /\ pc = "backbone"
    /\ \E kind \in ContainerKinds, n \in 0..(MaxLevels + 1) :
          /\ kind = "tensor" => n = 0
          /\ feature_maps' = [kind |-> kind, n |-> n]
    /\ log' = Append(log, "backbone")
    /\ patch' = <<PatchGrid(pixel_values[3], config.patch_size),
                  PatchGrid(pixel_values[4], config.patch_size)>>
    /\ pc' = "normalize"
    /\ UNCHANGED <<config, labels, pixel_values, caller_prompt, prompt_depth,
                   heap, error, hidden_states, fused_hidden_states,
                   fusion_calls, predicted_depth, result, layer, layer_io>>

RECURSIVE MinOf(_)
\* torch.min over one row of prompt_depth.reshape(B, -1)
MinOf(row) ==
    IF Len(row) = 1 THEN row[1] ELSE Min2(row[1], MinOf(Tail(row)))

RECURSIVE MaxOf(_)
\* torch.max over one row of prompt_depth.reshape(B, -1)
MaxOf(row) ==
    IF Len(row) = 1 THEN row[1] ELSE Max2(row[1], MaxOf(Tail(row)))

\* The literal 1e-6 as a binary32 number.
Epsilon == <<8796093, -43>>

\* invalid_mask = (depth_max - depth_min) <= 0, for one batch element
InvalidMask(depth_min, depth_max) == Le(Sub(depth_max, depth_min), Zero)

\* depth_min[invalid_mask] + 1e-6, for one batch element
Perturbed(depth_min) == Add(depth_min, Epsilon)

\* (prompt_depth - depth_min) / (depth_max - depth_min), for one value
NormalizeValue(x, depth_min, depth_max) ==
    Div(Sub(x, depth_min), Sub(depth_max, depth_min))

\* the three tests "prompt_depth is not None"
NormalizeGate(p) == p # "None"

InjectGate(p) == p # "None"

DenormalizeGateNever(p) == FALSE
DenormalizeGate(p) == p # "None"

NormalizedStorageInPlace == "arg"

\* The storages of the tensors forward creates: the values of torch.min and
\* torch.max, and the result of the out-of-place subtraction and division.
DepthMinStorage == "depth_min"
DepthMaxStorage == "depth_max"
NormalizedStorage == "normalized"

Normalize ==
    /\ pc = "normalize"
    /\ pc' = "neck"
    /\ IF NormalizeGate(prompt_depth)
       THEN LET B  == heap[prompt_depth].shape[1]
                h1 == [heap EXCEPT ![DepthMinStorage] =
                         Tensor(<<B>>, [b \in 1..B |->
                             <<MinOf(heap[prompt_depth].data[b])>>])]
                h2 == [h1 EXCEPT ![DepthMaxStorage] =
                         Tensor(<<B>>, [b \in 1..B |->
                             <<MaxOf(h1[prompt_depth].data[b])>>])]
                mask == [b \in 1..B |->
                            InvalidMask(h2[DepthMinStorage].data[b][1],
                                        h2[DepthMaxStorage].data[b][1])]
                \* depth_max[invalid_mask] = ...: written in place
                h3 == IF \E b \in 1..B : mask[b]
                      THEN [h2 EXCEPT ![DepthMaxStorage].data =
                              [b \in 1..B |->
                                 IF mask[b]
                                 THEN <<Perturbed(h2[DepthMinStorage].data[b][1])>>
                                 ELSE h2[DepthMaxStorage].data[b]]]
                      ELSE h2
                \* .view(B, 1, 1, 1): the same storages, reshaped
                h4 == [h3 EXCEPT ![DepthMinStorage].shape = <<B, 1, 1, 1>>,
                                 ![DepthMaxStorage].shape = <<B, 1, 1, 1>>]
                h5 == [h4 EXCEPT ![NormalizedStorage] =
                         Tensor(h4[prompt_depth].shape,
                                [b \in 1..B |->
                                   [i \in 1..Len(h4[prompt_depth].data[b]) |->
                                      NormalizeValue(
                                          h4[prompt_depth].data[b][i],
                                          h4[DepthMinStorage].data[b][1],
                                          h4[DepthMaxStorage].data[b][1])]])]
            IN /\ heap' = h5
               /\ prompt_depth' = NormalizedStorage
               /\ log' = Append(log, "normalize")
       ELSE UNCHANGED <<heap, prompt_depth, log>>
    /\ UNCHANGED <<config, labels, pixel_values, caller_prompt, feature_maps,
                   patch, error, hidden_states, fused_hidden_states,
                   fusion_calls, predicted_depth, result, layer, layer_io>>

(***************************************************************************)
(* Feature maps.  A feature map [B, C, h, w] is its spatial size, per      *)
(* batch element whether its values are NaN, and the operations that       *)
(* produced it, in order.                                                  *)
(***************************************************************************)
FeatureMap(size, nan, ops) == [size |-> size, nan |-> nan, ops |-> ops]
Op(name, k) == <<name, k>>
Minimum(a, b) == IF a < b THEN a ELSE b
Maximum(a, b) == IF a < b THEN b ELSE a
HasNaN(row) == \E i \in 1..Len(row) : IsNaN(row[i])

(***************************************************************************)
(* PromptDepthAnythingNeck.forward                                         *)
(***************************************************************************)
NeckLengthOkAlways(n) == TRUE

\* isinstance(hidden_states, (tuple, list))
NeckTypeOk(kind) == kind \in {"tuple", "list"}

\* len(hidden_states) == len(self.config.neck_hidden_sizes)
NeckLengthOk(n) == n = config.levels

\* self.reassemble_stage: one ReassembleLayer per level, in input order, on
\* the patch grid.
ReassembleStage(n, grid, B) ==
    [i \in 1..Minimum(n, config.levels) |->
        FeatureMap(ResizeOut2(config.resize[i], grid),
                   [b \in 1..B |-> FALSE],
                   <<Op("feature_map", i), Op("reassemble", i)>>)]

\* [self.convs[i](feature) for i, feature in enumerate(hidden_states)]
ReadoutConvs(hs) ==
    [i \in 1..Len(hs) |-> [hs[i] EXCEPT !.ops = Append(@, Op("convs", i))]]

Neck ==
    /\ pc = "neck"
    /\ IF ~NeckTypeOk(feature_maps.kind)
       THEN /\ pc' = "raised"
            /\ error' = "TypeError"
            /\ UNCHANGED <<hidden_states, log>>
       ELSE IF ~NeckLengthOk(feature_maps.n)
       THEN /\ pc' = "raised"
            /\ error' = "ValueError"
            /\ UNCHANGED <<hidden_states, log>>
       ELSE /\ pc' = "fusion"
            /\ error' = error
            /\ hidden_states' =
                  ReadoutConvs(ReassembleStage(feature_maps.n, patch,
                                               pixel_values[1]))
            /\ log' = log \o <<"reassemble_stage", "convs", "fusion_stage">>
    /\ UNCHANGED <<config, labels, pixel_values, caller_prompt, prompt_depth,
                   heap, feature_maps, patch, fused_hidden_states,
                   fusion_calls, predicted_depth, result, layer, layer_io>>

(***************************************************************************)
(* PromptDepthAnythingFeatureFusionLayer.forward                           *)
(***************************************************************************)
FusionOutSizeKeep(size, current) ==
    IF size = None THEN current ELSE size[1]

\* modifier = {"scale_factor": 2} if size is None else {"size": size}
FusionOutSize(size, current) ==
    IF size = None THEN <<2 * current[1], 2 * current[2]>> ELSE size[1]

FusionLayer(hidden_state, residual, size, prompt, h) ==
    LET s1 == IF residual # None
              THEN FeatureMap(
                     hidden_state.size,
                     [b \in DOMAIN hidden_state.nan |->
                         hidden_state.nan[b] \/ residual[1].nan[b]],
                     hidden_state.ops \o <<Op("residual", 0)>> \o residual[1].ops
                       \o (IF hidden_state.size # residual[1].size
                           THEN <<Op("interpolate_to_hidden_state", 0)>>
                           ELSE <<>>)
                       \o <<Op("residual_layer1", 0), Op("add", 0)>>)
              ELSE hidden_state
        s2 == [s1 EXCEPT !.ops = Append(@, Op("residual_layer2", 0))]
        s3 == IF InjectGate(prompt)
              THEN FeatureMap(
                     s2.size,
                     [b \in DOMAIN s2.nan |->
                         s2.nan[b] \/ HasNaN(h[prompt].data[b])],
                     s2.ops \o <<Op("prompt_interpolate", 0),
                                 Op("prompt_depth_layer", 0),
                                 Op("add_prompt", 0)>>)
              ELSE s2
    IN FeatureMap(FusionOutSize(size, s3.size), s3.nan,
                  s3.ops \o <<Op(IF size = None THEN "interpolate_x2"
                                 ELSE "interpolate_size", 0),
                              Op("projection", 0)>>)

(***************************************************************************)
(* PromptDepthAnythingFeatureFusionStage.forward                           *)
(***************************************************************************)
NotReversed(hs) == hs

\* hidden_states[::-1]
Reversed(hs) == Reverse(hs)

\* hidden_states[idx + 1].shape[2:] if idx != len(hidden_states) - 1 else None
\* (idx counts from 0, sequences from 1)
SizeArg(rev, idx) ==
    IF idx # Len(rev) - 1 THEN Some(rev[idx + 2].size) ELSE None

\* One iteration of the loop over zip(hidden_states, self.layers).
FusionIter ==
    /\ pc = "fusion"
    /\ LET rev   == Reversed(hidden_states)
           idx   == Len(fused_hidden_states)
           count == Minimum(Len(rev), config.levels)
       IN /\ idx < count
          /\ LET size  == SizeArg(rev, idx)
                 first == fused_hidden_states = <<>>
                 hs    == IF first THEN rev[idx + 1]
                                   ELSE Last(fused_hidden_states)
                 res   == IF first THEN None ELSE Some(rev[idx + 1])
                 fused == FusionLayer(hs, res, size, prompt_depth, heap)
             IN /\ fused_hidden_states' = Append(fused_hidden_states, fused)
                /\ fusion_calls' =
                      Append(fusion_calls,
                             [layer        |-> idx,
                              hidden_state |-> hs,
                              residual     |-> res,
                              size         |-> size,
                              prompt_depth |-> prompt_depth,
                              injected     |-> InjectGate(prompt_depth)])
          /\ pc' = IF idx + 1 = count THEN "head" ELSE "fusion"
    /\ UNCHANGED <<config, labels, pixel_values, caller_prompt, prompt_depth,
                   heap, feature_maps, patch, log, error, hidden_states,
                   predicted_depth, result, layer, layer_io>>

(***************************************************************************)
(* PromptDepthAnythingDepthEstimationHead.forward                          *)
(***************************************************************************)
\* s[i] with Python's indexing
PyIndex(s, i) == IF i >= 0 THEN s[i + 1] ELSE s[Len(s) + i + 1]

\* shape.squeeze(dim)
Squeeze(shape, dim) ==
    IF shape[dim + 1] = 1
    THEN [i \in 1..(Len(shape) - 1) |->
             IF i <= dim THEN shape[i] ELSE shape[i + 1]]
    ELSE shape

\* torch_int(patch_height * self.patch_size)
HeadTarget(patch_length, patch_size) == patch_length * patch_size

\* The shape after conv2, activation1, conv3 and activation2 of a
\* [B, C, h, w] input: conv2 keeps the spatial size, conv3 is 1 x 1 with one
\* output channel.
HeadConvShape(B, size) == <<B, 1, size[1], size[2]>>

\* The head's output has one value per pixel; values[b] is its value at an
\* arbitrary pixel of batch element b, act[b] the activation there.
HeadForward ==
    /\ pc = "head"
    /\ \E act \in [1..pixel_values[1] -> Activations] :
          LET hs     == PyIndex(fused_hidden_states, config.head_in_index)
              B      == Len(hs.nan)
              target == <<HeadTarget(patch[1], config.patch_size),
                          HeadTarget(patch[2], config.patch_size)>>
          IN predicted_depth' =
                Some([shape  |-> Squeeze(HeadConvShape(B, target), 1),
                      values |-> [b \in 1..B |->
                                    IF hs.nan[b] THEN NaN
                                    ELSE Mul(act[b], config.max_depth)],
                      ops    |-> hs.ops \o
                                 <<Op("conv1", 0), Op("interpolate", 0),
                                   Op("conv2", 0), Op("activation1", 0),
                                   Op("conv3", 0), Op("activation2", 0),
                                   Op("max_depth", 0), Op("squeeze", 0)>>])
    /\ log' = Append(log, "head")
    /\ pc' = "denormalize"
    /\ UNCHANGED <<config, labels, pixel_values, caller_prompt, prompt_depth,
                   heap, feature_maps, patch, error, hidden_states,
                   fused_hidden_states, fusion_calls, result, layer, layer_io>>

(***************************************************************************)
(* forward, continued: denormalization and return                          *)
(***************************************************************************)
PadLeft(shape, n) ==
    [i \in 1..n |-> IF i <= n - Len(shape) THEN 1
                    ELSE shape[i - (n - Len(shape))]]

\* The shape of an elementwise operation on two broadcastable shapes.
Broadcast(s1, s2) ==
    LET n == Maximum(Len(s1), Len(s2))
        a == PadLeft(s1, n)
        b == PadLeft(s2, n)
    IN [i \in 1..n |-> IF a[i] = 1 THEN b[i] ELSE a[i]]

DenormalizeValueNoOffset(x, depth_min, depth_max) ==
    Mul(x, Sub(depth_max, depth_min))

\* predicted_depth * (depth_max - depth_min) + depth_min, for one value
DenormalizeValue(x, depth_min, depth_max) ==
    Add(Mul(x, Sub(depth_max, depth_min)), depth_min)

Denormalize ==
    /\ pc = "denormalize"
    /\ pc' = "return"
    /\ IF DenormalizeGate(prompt_depth)
       THEN LET \* .squeeze(1): views of the same storages
                h1 == [heap EXCEPT
                         ![DepthMinStorage].shape = Squeeze(@, 1),
                         ![DepthMaxStorage].shape = Squeeze(@, 1)]
                dmin == h1[DepthMinStorage]
                dmax == h1[DepthMaxStorage]
                pd   == predicted_depth[1]
            IN /\ heap' = h1
               /\ predicted_depth' =
                     Some([shape  |-> Broadcast(
                                        Broadcast(pd.shape,
                                            Broadcast(dmax.shape, dmin.shape)),
                                        dmin.shape),
                           values |-> [b \in DOMAIN pd.values |->
                                         DenormalizeValue(pd.values[b],
                                                          dmin.data[b][1],
                                                          dmax.data[b][1])],
                           ops    |-> Append(pd.ops, Op("denormalize", 0))])
               /\ log' = Append(log, "denormalize")
       ELSE UNCHANGED <<heap, predicted_depth, log>>
    /\ UNCHANGED <<config, labels, pixel_values, caller_prompt, prompt_depth,
                   feature_maps, patch, error, hidden_states,
                   fused_hidden_states, fusion_calls, result, layer, layer_io>>

\* The output (a DepthEstimatorOutput or a tuple, as return_dict says)
\* carries predicted_depth; the backbone's hidden states and attentions it
\* passes through are not modelled.
Return ==
    /\ pc = "return"
    /\ pc' = "done"
    /\ result' = predicted_depth
    /\ UNCHANGED <<config, labels, pixel_values, caller_prompt, prompt_depth,
                   heap, feature_maps, patch, log, error, hidden_states,
                   fused_hidden_states, fusion_calls, predicted_depth, layer,
                   layer_io>>

(***************************************************************************)
(* PromptDepthAnythingReassembleLayer on its own                           *)
(***************************************************************************)
\* The layer resizes an input of n rows (or columns).
ReassembleLayerForward ==
    /\ \E n \in 1..MaxSide : layer_io' = <<n, ResizeOut(layer.resize, n)>>
    /\ UNCHANGED <<config, layer>>
    /\ UNCHANGED forward_vars

(***************************************************************************)
(* Specifications                                                          *)
(***************************************************************************)
Steps ==
    \/ CheckLabels
    \/ Backbone
    \/ Normalize
    \/ Neck
    \/ FusionIter
    \/ HeadForward
    \/ Denormalize
    \/ Return

\* Values: one architecture, every prompt over PromptElements.
Init ==
    /\ config \in Configs
    /\ InitForward
    /\ InitLayer

CallValues ==
    \E l \in {"None", "tensor"}, B \in 1..MaxBatch :
       \E p \in {None} \cup {Some(t) : t \in Prompts(B)} :
          Call(l, <<B, 3, 28, 28>>, p)

Next == CallValues \/ Steps

Spec == Init /\ [][Next]_vars

\* Shapes: every architecture and input size, one prompt per resolution.
InitShapes ==
    /\ config \in ConfigsShapes
    /\ InitForward
    /\ InitLayer

CallShapes ==
    \E l \in {"None", "tensor"}, B \in 1..MaxBatch, sz \in PixelSizes :
       \E p \in {None} \cup {Some(t) : t \in PromptsShapes(B)} :
          Call(l, <<B, 3, sz[1], sz[2]>>, p)

NextShapes == CallShapes \/ Steps

SpecShapes == InitShapes /\ [][NextShapes]_vars

\* A reassemble layer of every factor, applied to every length.
InitReassemble ==
    /\ config \in {MakeConfig(14, <<<<1, 1>>>>, F(1, 0), -1)}
    /\ InitForward
    /\ layer \in {[factor |-> f, resize |-> ReassembleResize(f)] : f \in Factors}
    /\ layer_io = <<0, 0>>

NextReassemble == ReassembleLayerForward

SpecReassemble == InitReassemble /\ [][NextReassemble]_vars

(***************************************************************************)
(* Properties                                                              *)
(***************************************************************************)
Contains(s, x) == \E i \in 1..Len(s) : s[i] = x
PromptGiven == caller_prompt # None
BatchOf(t) == 1..Len(t.data)
RawMin(b) == MinOf(caller_prompt[1].data[b])
RawMax(b) == MaxOf(caller_prompt[1].data[b])
DepthMin(b) == heap[DepthMinStorage].data[b][1]
DepthMax(b) == heap[DepthMaxStorage].data[b][1]
Normalized == prompt_depth = NormalizedStorage
Degenerate(b) == Le(Sub(RawMax(b), RawMin(b)), Zero)

\* C1: a call with labels set raises NotImplementedError at once: it never
\* gets past the labels test, so the backbone, the normalization, the neck,
\* the head and the denormalization have not run, the heap holds nothing
\* but the caller's prompt, and there is no output, whatever the other
\* arguments are.
C1_LabelsFailFirst ==
    labels # "None" =>
       /\ pc \in {"labels", "raised"}
       /\ pc = "raised" => error = "NotImplementedError"
       /\ log = <<>>
       /\ feature_maps.n = 0 /\ patch = <<0, 0>>
       /\ \A s \in Storages \ {"arg"} : heap[s] = Unallocated
       /\ hidden_states = <<>> /\ fusion_calls = <<>>
       /\ fused_hidden_states = <<>>
       /\ predicted_depth = None /\ result = None

\* A call with labels and a prompt has failed.
C1_Witness ==
    /\ pc = "raised" /\ error = "NotImplementedError"
    /\ labels = "tensor" /\ PromptGiven

\* C2: once the prompt is normalized, every batch element has
\* depth_max > depth_min strictly; an element whose raw max - min <= 0 has
\* depth_max - depth_min equal to 1e-6 and an all-zero normalized prompt;
\* an element with raw max > min keeps its raw range.
C2_RangeStrictlyPositive ==
    (PromptGiven /\ Normalized) =>
       \A b \in BatchOf(caller_prompt[1]) :
          /\ DepthMin(b) = RawMin(b)
          /\ Lt(DepthMin(b), DepthMax(b))
          /\ Degenerate(b) =>
                /\ Sub(DepthMax(b), DepthMin(b)) = Epsilon
                /\ \A i \in 1..Len(heap[NormalizedStorage].data[b]) :
                      heap[NormalizedStorage].data[b][i] = Zero
          /\ ~Degenerate(b) => DepthMax(b) = RawMax(b)

\* C3, as claimed: with a prompt, every value of the returned depth of batch
\* element b lies in [depth_min_b, depth_max_b].
C3_WithinPromptRange ==
    (pc = "done" /\ PromptGiven) =>
       \A b \in DOMAIN result[1].values :
          /\ Le(DepthMin(b), result[1].values[b])
          /\ Le(result[1].values[b], DepthMax(b))

\* C3, amended: with a prompt, every value of the returned depth of batch
\* element b is a number in [depth_min_b, max_depth * (depth_max_b -
\* depth_min_b) + depth_min_b], the denormalized images of the ends 0 and
\* max_depth of the head's range, or it is NaN, and then the range of b has
\* collapsed (depth_max_b = depth_min_b).
C3_WithinDenormalizedHeadRange ==
    (pc = "done" /\ PromptGiven) =>
       \A b \in DOMAIN result[1].values :
          LET v == result[1].values[b] IN
          IF IsNaN(v) THEN DepthMax(b) = DepthMin(b)
          ELSE /\ Le(DepthMin(b), v)
               /\ Le(v, Add(Mul(config.max_depth,
                                Sub(DepthMax(b), DepthMin(b))),
                            DepthMin(b)))
               /\ Lt(DepthMin(b), DepthMax(b))

\* A returned value strictly inside the prompt's range, and one above it.
C3_Witness ==
    /\ pc = "done" /\ PromptGiven
    /\ Len(result[1].values) = 2
    /\ Lt(DepthMin(1), result[1].values[1])
    /\ Lt(result[1].values[1], DepthMax(1))
    /\ Lt(DepthMax(2), result[1].values[2])

\* The pipeline without any prompt-depth branch: level i after reassembly
\* and readout, and fused map k (in processing order) after fusion.
BaseLevelOps(i) ==
    <<Op("feature_map", i), Op("reassemble", i), Op("convs", i)>>

RECURSIVE BaseFusedOps(_)
BaseFusedOps(k) ==
    LET cur    == BaseLevelOps(config.levels + 1 - k)
        resize == Op(IF k = config.levels THEN "interpolate_x2"
                     ELSE "interpolate_size", 0)
    IN IF k = 1
       THEN cur \o <<Op("residual_layer2", 0), resize, Op("projection", 0)>>
       ELSE BaseFusedOps(k - 1) \o <<Op("residual", 0)>> \o cur
              \o <<Op("residual_layer1", 0), Op("add", 0),
                   Op("residual_layer2", 0), resize, Op("projection", 0)>>

BaseHeadOps ==
    <<Op("conv1", 0), Op("interpolate", 0), Op("conv2", 0),
      Op("activation1", 0), Op("conv3", 0), Op("activation2", 0),
      Op("max_depth", 0), Op("squeeze", 0)>>

PastNormalize ==
    pc \in {"neck", "fusion", "head", "denormalize", "return", "done"}
       \/ (pc = "raised" /\ error # "NotImplementedError")

\* C4: a call without a prompt returns exactly what the pipeline without
\* prompt-depth branches computes: nothing is normalized, no fusion layer
\* injects, the head's output is returned as it is.  And in every call
\* normalization, injection in each fusion layer and denormalization all
\* happen or none does, as a prompt was passed or not.
C4_NoPromptIsBasePipeline ==
    /\ (pc = "done" /\ ~PromptGiven) =>
          /\ result[1].ops = BaseFusedOps(config.levels) \o BaseHeadOps
          /\ result[1].shape = <<pixel_values[1],
                                 patch[1] * config.patch_size,
                                 patch[2] * config.patch_size>>
          /\ \A b \in 1..pixel_values[1] :
                \E act \in Activations :
                   result[1].values[b] = Mul(act, config.max_depth)
          /\ DOMAIN result[1].values = 1..pixel_values[1]
          /\ \A s \in Storages : heap[s] = Unallocated
    /\ PastNormalize => (Contains(log, "normalize") <=> PromptGiven)
    /\ ~PastNormalize => ~Contains(log, "normalize")
    /\ \A k \in 1..Len(fusion_calls) :
          /\ fusion_calls[k].injected <=> Contains(log, "normalize")
          /\ fusion_calls[k].prompt_depth =
                (IF PromptGiven THEN NormalizedStorage ELSE "None")
    /\ pc \in {"return", "done"} =>
          /\ Contains(log, "denormalize") <=> Contains(log, "normalize")
          /\ Contains(predicted_depth[1].ops, Op("denormalize", 0))
                <=> Contains(log, "normalize")
          /\ Contains(predicted_depth[1].ops, Op("add_prompt", 0))
                <=> Contains(log, "normalize")
    /\ pc \notin {"return", "done"} => ~Contains(log, "denormalize")

\* A call without a prompt has returned, through three fusion layers.
C4_Witness ==
    /\ pc = "done" /\ ~PromptGiven
    /\ Len(fusion_calls) = 3

NeckActed ==
    pc \in {"fusion", "head", "denormalize", "return", "done"}
       \/ (pc = "raised" /\ error # "NotImplementedError")

\* C5: once the neck has been entered, a feature-map argument that is no
\* tuple or list has raised TypeError, a tuple or list of another length
\* than the configured number of levels has raised ValueError, in both
\* cases before the reassemble stage, the readout convolutions and the
\* fusion stage ran and with no output; a list of the configured length
\* raises neither.
C5_NeckValidatesFirst ==
    NeckActed =>
       /\ ~NeckTypeOk(feature_maps.kind) =>
             pc = "raised" /\ error = "TypeError"
       /\ (NeckTypeOk(feature_maps.kind)
             /\ feature_maps.n # config.levels) =>
             pc = "raised" /\ error = "ValueError"
       /\ (NeckTypeOk(feature_maps.kind)
             /\ feature_maps.n = config.levels) =>
             /\ error = "none"
             /\ Contains(log, "reassemble_stage")
             /\ Len(hidden_states) = config.levels
       /\ pc = "raised" =>
             /\ ~Contains(log, "reassemble_stage")
             /\ ~Contains(log, "convs")
             /\ ~Contains(log, "fusion_stage")
             /\ hidden_states = <<>> /\ fusion_calls = <<>>
             /\ fused_hidden_states = <<>>
             /\ predicted_depth = None /\ result = None

\* The neck has refused a list that is one feature map short.
C5_Witness ==
    /\ pc = "raised" /\ error = "ValueError"
    /\ feature_maps.kind = "list"
    /\ feature_maps.n = config.levels - 1

\* C6: the tensor the caller passed as prompt_depth holds, in every state
\* of the call, the shape and the values it was passed with.
C6_CallerPromptUnchanged ==
    PromptGiven => heap["arg"] = caller_prompt[1]

\* A call has returned whose prompt had a degenerate element (so depth_max
\* was written in place) and was resized in two fusion layers.
C6_Witness ==
    /\ pc = "done" /\ PromptGiven
    /\ \E b \in BatchOf(caller_prompt[1]) :
          Degenerate(b) /\ Lt(DepthMin(b), DepthMax(b))
    /\ Len(fusion_calls) = 2
    /\ \A k \in 1..2 : fusion_calls[k].injected

PastBackbone == PastNormalize \/ pc = "normalize"

\* C7: the patch grid is (H // p, W // p) and the returned depth has shape
\* [B, (H // p) * p, (W // p) * p], with or without a prompt and whatever
\* the prompt's resolution; [1, 3, 392, 518] with p = 14 gives the grid
\* (28, 37) and the shape [1, 392, 518]; the output height (width) is the
\* input's exactly when p divides it.
C7_OutputShape ==
    LET B == pixel_values[1]
        H == pixel_values[3]
        W == pixel_values[4]
        p == config.patch_size
    IN /\ PastBackbone =>
             /\ patch = <<H \div p, W \div p>>
             /\ patch[1] * p <= H /\ H < (patch[1] + 1) * p
             /\ patch[2] * p <= W /\ W < (patch[2] + 1) * p
             /\ (pixel_values = <<1, 3, 392, 518>> /\ p = 14) =>
                   patch = <<28, 37>>
       /\ pc = "done" =>
             /\ result[1].shape = <<B, (H \div p) * p, (W \div p) * p>>
             /\ result[1].shape[2] = H <=> H % p = 0
             /\ result[1].shape[3] = W <=> W % p = 0
             /\ (pixel_values = <<1, 3, 392, 518>> /\ p = 14) =>
                   result[1].shape = <<1, 392, 518>>

\* Scenario A, with a prompt, has returned.
C7_Witness ==
    /\ pc = "done" /\ PromptGiven
    /\ pixel_values = <<1, 3, 392, 518>> /\ config.patch_size = 14
    /\ result[1].shape = <<1, 392, 518>>

FusionDone == pc \in {"head", "denormalize", "return", "done"}

\* C8, as claimed: the last fused map has the spatial size of input
\* element 0, the finest reassembled level.
C8_LastFusedAtFinestSize ==
    FusionDone => Last(fused_hidden_states).size = hidden_states[1].size

\* C8, amended: the last fused map has twice the height and twice the
\* width of input element 0: the last fusion layer adds input element 0 at
\* its own size and then upsamples by 2.
C8_LastFusedAtTwiceFinestSize ==
    FusionDone =>
       /\ Last(fused_hidden_states).size =
             <<2 * hidden_states[1].size[1], 2 * hidden_states[1].size[2]>>
       /\ Last(fusion_calls).hidden_state.size = hidden_states[1].size
       /\ Last(fusion_calls).size = None

\* The fusion stage has fused three levels of different sizes.
C8_Witness ==
    /\ pc = "head" /\ Len(hidden_states) = 3
    /\ hidden_states[1].size # hidden_states[2].size
    /\ hidden_states[2].size # hidden_states[3].size

\* C9, as claimed: the resize module follows from factor alone, a transposed
\* convolution with kernel = stride = factor and no padding for factor > 1
\* (output = input * factor), the identity for factor = 1, and for
\* factor < 1 a 3x3 convolution with padding 1 whose stride is
\* round(1 / factor).
C9_StrideIsRounded ==
    LET f == layer.factor
        r == layer.resize
        n == layer_io[1]
    IN /\ f[1] > f[2] =>
             /\ r.kind = "ConvTranspose2d" /\ r.padding = 0
             /\ r.kernel * f[2] = f[1] /\ r.stride * f[2] = f[1]
             /\ layer_io[2] * f[2] = n * f[1]
       /\ f[1] = f[2] => r.kind = "Identity" /\ layer_io[2] = n
       /\ f[1] < f[2] =>
             /\ r.kind = "Conv2d" /\ r.kernel = 3 /\ r.padding = 1
             /\ r.stride = RoundInverse(f)

\* C9, amended: as claimed, but for factor < 1 the stride is 1 / factor
\* truncated to an integer (the largest s with s * factor <= 1), and the
\* output has (input - 1) // stride + 1 rows.
C9_StrideIsTruncated ==
    LET f == layer.factor
        r == layer.resize
        n == layer_io[1]
    IN /\ f[1] > f[2] =>
             /\ r.kind = "ConvTranspose2d" /\ r.padding = 0
             /\ r.kernel * f[2] = f[1] /\ r.stride * f[2] = f[1]
             /\ layer_io[2] * f[2] = n * f[1]
       /\ f[1] = f[2] => r.kind = "Identity" /\ layer_io[2] = n
       /\ f[1] < f[2] =>
             /\ r.kind = "Conv2d" /\ r.kernel = 3 /\ r.padding = 1
             /\ r.stride * f[1] <= f[2] /\ f[2] < (r.stride + 1) * f[1]
             /\ n > 0 => layer_io[2] = (n - 1) \div r.stride + 1

\* The layer of factor 3/5 has resized 5 rows: its stride is 1, not 2.
C9_Witness ==
    /\ layer.factor = <<3, 5>>
    /\ layer_io = <<5, 5>>

\* C10: the fusion stage calls its layers once per level, coarsest level
\* (the last of the input) first: call 0 gets reversed element 0 and no
\* residual, call k >= 1 gets the output of call k - 1 and reversed element
\* k as residual; the size of call k is the size of reversed element k + 1,
\* and none for the last call; output k is the result of call k; every call
\* gets the same prompt_depth.  When the stage is done it has made exactly
\* L calls and holds exactly L fused maps.
C10_FusionCallOrder ==
    LET L == Len(hidden_states) IN
    /\ Len(fusion_calls) = Len(fused_hidden_states)
    /\ Len(fusion_calls) <= L
    /\ FusionDone => Len(fusion_calls) = L
    /\ pc = "fusion" => Len(fusion_calls) < L
    /\ \A j \in 1..Len(fusion_calls) :
          LET k == j - 1
              c == fusion_calls[j]
          IN /\ c.layer = k
             /\ c.hidden_state = (IF k = 0 THEN hidden_states[L]
                                  ELSE fused_hidden_states[j - 1])
             /\ c.residual = (IF k = 0 THEN None
                              ELSE Some(hidden_states[L - k]))
             /\ c.size = (IF k < L - 1 THEN Some(hidden_states[L - k - 1].size)
                          ELSE None)
             /\ c.prompt_depth = prompt_depth
             /\ fused_hidden_states[j] =
                   FusionLayer(c.hidden_state, c.residual, c.size,
                               c.prompt_depth, heap)
             /\ k < L - 1 =>
                   fused_hidden_states[j].size = hidden_states[L - k - 1].size

\* The stage has fused three levels of different sizes, with a prompt.
C10_Witness ==
    /\ pc = "head" /\ Len(fusion_calls) = 3 /\ PromptGiven
    /\ hidden_states[1].size # hidden_states[3].size
=============================================================================
